---- MODULE Spec2Model ----
(***************************************************************************)
(* Smart-Dabba: the data layer (app.py) over the Firebase path water_data, *)
(* the IoT ingest endpoint, the read endpoints and the data generator      *)
(* (simulator.py) that loads the same path.                                *)
(*                                                                         *)
(* Text is modelled as a sequence of character codes (ASCII), so that      *)
(* str.replace, strftime/strptime, str() of an integer and the string      *)
(* comparisons of Firebase's order_by_key and of list.sort are computed    *)
(* character by character.  Numbers of more than nine digits are kept as   *)
(* sequences of decimal digits.                                            *)
(***************************************************************************)
EXTENDS Integers, Sequences, FiniteSets, TLC

VARIABLES
    store,      \* water_data: <<area key, record key>> -> stored record
    now,        \* the wall clock read by datetime.now()
    DB_REF,     \* "ref" when db.reference succeeded at start-up, "None" otherwise
    IOT_DEVICE_SECRET,  \* os.getenv('IOT_DEVICE_SECRET')
    last,       \* the last request handled and its response
    device_pc,  \* iot_client.py: "off", or about to "send" or to "sleep"
    device_log, \* iot_client.py: what each send_data() sent and got back
    fc,         \* water_modeler.py: the predict_area_trend call in progress
    JOBS,       \* ml_api.py: job_id -> job, the ids being 1, 2, ... in order of registration
    JOBS_LOCK,  \* ml_api.py: 0 when free, else the job whose worker holds the lock
    worker,     \* ml_api.py: job_id -> the position and locals of its _run_treatment_job thread
    client,     \* ml_api.py: the job_status request in progress and its response
    seen,       \* the job and the progress the last answered job_status showed
    committed   \* job_id -> the job's fields at its registration and after each locked update

\* the treatment job tracker of ml_api.py
job_vars == <<JOBS, JOBS_LOCK, worker, client, seen, committed>>

\* the state of the ML layer (water_modeler.py, ml_api.py)
ml_vars == <<fc, job_vars>>

\* the state of the data layer (app.py) and of its devices
data_vars == <<store, now, DB_REF, IOT_DEVICE_SECRET, last, device_pc, device_log>>

vars == <<store, now, DB_REF, IOT_DEVICE_SECRET, last, device_pc, device_log, ml_vars>>

----------------------------------------------------------------------------
(* Bounds of the model *)

\* most records the store holds in the interleaved specification
MaxRecords == 2
\* most rows of one data-generator load
MaxRows == 2
\* length of the stream of readings in the single-device specification
MaxStream == 103

----------------------------------------------------------------------------
(* Text *)

SP == 32
DASH == 45
ZERO == 48
COLON == 58
USCORE == 95

Min(a, b) == IF a < b THEN a ELSE b

\* Python's str < str: the first differing character decides, a proper
\* prefix is smaller.
RECURSIVE StrLessFrom(_, _, _)
StrLessFrom(a, b, i) ==
    IF i > Len(b) THEN FALSE
    ELSE IF i > Len(a) THEN TRUE
    ELSE IF a[i] = b[i] THEN StrLessFrom(a, b, i + 1)
    ELSE a[i] < b[i]

StrLess(a, b) == StrLessFrom(a, b, 1)

\* str.replace(old, new) for one-character old and new
Replace(s, old, new) == [i \in 1..Len(s) |-> IF s[i] = old THEN new ELSE s[i]]

\* the w low decimal digits of n, most significant first, as characters
Pad(n, w) == [i \in 1..w |-> ZERO + ((n \div (10 ^ (w - i))) % 10)]

\* the number a run of digit characters denotes (at most 4 digits here)
Num(s) ==
    LET RECURSIVE go(_, _)
        go(i, acc) == IF i > Len(s) THEN acc ELSE go(i + 1, acc * 10 + (s[i] - ZERO))
    IN go(1, 0)

----------------------------------------------------------------------------
(* Time stamps and storage keys *)

\* datetime.strftime("%Y-%m-%d %H:%M:%S") for years 1000..9999
strftime_iso(t) ==
    Pad(t.Y, 4) \o <<DASH>> \o Pad(t.M, 2) \o <<DASH>> \o Pad(t.D, 2) \o <<SP>>
    \o Pad(t.h, 2) \o <<COLON>> \o Pad(t.m, 2) \o <<COLON>> \o Pad(t.s, 2)

\* datetime.strptime(ts, "%Y-%m-%d %H:%M:%S")
strptime_iso(ts) ==
    [Y |-> Num(SubSeq(ts, 1, 4)), M |-> Num(SubSeq(ts, 6, 7)), D |-> Num(SubSeq(ts, 9, 10)),
     h |-> Num(SubSeq(ts, 12, 13)), m |-> Num(SubSeq(ts, 15, 16)), s |-> Num(SubSeq(ts, 18, 19))]

\* datetime.strftime("%Y%m%d%H%M%S")
strftime_compact(t) ==
    Pad(t.Y, 4) \o Pad(t.M, 2) \o Pad(t.D, 2) \o Pad(t.h, 2) \o Pad(t.m, 2) \o Pad(t.s, 2)

\* int(text): the decimal digits without leading zeros (0 is <<>>)
RECURSIVE StripZeros(_)
StripZeros(d) == IF d # <<>> /\ Head(d) = 0 THEN StripZeros(Tail(d)) ELSE d

int(text) == StripZeros([i \in 1..Len(text) |-> text[i] - ZERO])

\* str(n) of a non-negative integer given by its digits
str(digits) == IF digits = <<>> THEN <<ZERO>> ELSE [i \in 1..Len(digits) |-> ZERO + digits[i]]

\* 99999999999999 - n for 0 <= n <= 99999999999999: with n written on 14
\* digits every column is 9 - digit and no column borrows.
KeyWidth == 14

NinesMinus(n) ==
    LET padded == [i \in 1..KeyWidth |->
                     IF i <= KeyWidth - Len(n) THEN 0 ELSE n[i - (KeyWidth - Len(n))]]
    IN StripZeros([i \in 1..KeyWidth |-> 9 - padded[i]])

\* a variant of reversed_key that drops the seconds ("%Y%m%d%H%M")
reversed_key_minutes(ts) ==
    str(NinesMinus(int(SubSeq(strftime_compact(strptime_iso(ts)), 1, 12))))

\* ingest_data: the record key of a reading stamped ts
reversed_key(ts) == str(NinesMinus(int(strftime_compact(strptime_iso(ts)))))

\* push_to_firebase: the record key of a generated row stamped ts
timestamp_key(ts) == strftime_compact(strptime_iso(ts))

\* area.replace(" ", "_")
area_key(area) == Replace(area, SP, USCORE)

\* a variant of display_name that leaves the key as it is stored
display_name_raw(key) == key

\* key.replace("_", " ")
display_name(key) == Replace(key, USCORE, SP)

----------------------------------------------------------------------------
(* Sample inputs *)

\* the clock's sample instants: two consecutive seconds and a later day
Instants ==
    { [Y |-> 2025, M |-> 11, D |-> 4, h |-> 9, m |-> 59, s |-> 59],
      [Y |-> 2025, M |-> 11, D |-> 4, h |-> 10, m |-> 0, s |-> 0],
      [Y |-> 2025, M |-> 12, D |-> 1, h |-> 0, m |-> 0, s |-> 0] }

FirstInstant == [Y |-> 2025, M |-> 11, D |-> 4, h |-> 9, m |-> 59, s |-> 59]

\* t1 is an earlier instant than t2 (field by field, most significant first)
Before(t1, t2) ==
    LET a == <<t1.Y, t1.M, t1.D, t1.h, t1.m, t1.s>>
        b == <<t2.Y, t2.M, t2.D, t2.h, t2.m, t2.s>>
    IN \E i \in 1..6 : a[i] < b[i] /\ \A j \in 1..(i - 1) : a[j] = b[j]

\* area names: "A B" and "C"
AreaNames == { <<65, SP, 66>>, <<67>> }

\* the keys of ALL_AREAS of the data generator, one taken: "A_B"
ALL_AREAS == { <<65, USCORE, 66>> }

\* os.getenv: a set variable, or None
Secrets == { [set |-> TRUE, val |-> "s3cret"], [set |-> FALSE, val |-> ""] }

\* request.get_json(): None ...
None == [py_none |-> TRUE]

\* the required fields before turbidity and chlorine were added
required_fields_old == {"area", "TDS", "Ca", "Mg", "pH"}

required_fields == {"area", "TDS", "Ca", "Mg", "pH", "turbidity", "chlorine"}

\* ... or an object; pH, turbidity and chlorine in tenths
Reading(area, tds) ==
    [area |-> area, TDS |-> tds, Ca |-> 80, Mg |-> 20, pH |-> 72,
     turbidity |-> 10, chlorine |-> 3]

Without(data, field) == [f \in (DOMAIN data) \ {field} |-> data[f]]

With(data, field, value) ==
    [f \in (DOMAIN data) \cup {field} |-> IF f = field THEN value ELSE data[f]]

\* a payload that carries derived fields of its own
Carrying(data) ==
    With(With(data, "total_hardness", 1),
         "classification", [hardness_class |-> "Soft", tds_status |-> "Safe",
                            is_safe_for_drinking |-> TRUE])

CompletePayloads ==
    { Reading(a, 400) : a \in AreaNames }
    \cup { Reading(<<67>>, 400), Carrying(Reading(<<67>>, 600)) }

Payloads ==
    CompletePayloads
    \cup { None, [f \in {} |-> 0], Without(Reading(<<67>>, 400), "chlorine") }

\* the requests made of /ingest: every payload under the device's header and
\* under "Bearer None", an absent and a complete payload under a wrong token
\* and under "", which is what headers.get returns for an absent header
IngestRequests ==
    ({ "Bearer s3cret", "Bearer None" } \X Payloads)
    \cup ({ "", "Bearer wrong" } \X { None, Reading(<<67>>, 400) })

----------------------------------------------------------------------------
(* The Reading Store: Firebase Realtime Database under water_data *)
(* store maps each area key that holds a record to its children, a        *)
(* sequence of entries [key, value] kept in ascending key order, the      *)
(* order of order_by_key.  The record keys written here have ten digits   *)
(* or more and exceed 2^31, so Firebase orders them as strings.           *)

\* DB_REF.child(path): a path names one node by segment, "/" (47) between
\* the segments; the first segment of a path is the child of water_data
first_segment(path) ==
    LET cut == { i \in 1..Len(path) : path[i] = 47 }
    IN IF cut = {} THEN path
       ELSE SubSeq(path, 1, (CHOOSE i \in cut : \A j \in cut : i <= j) - 1)

\* DB_REF.get(shallow=True): the children of water_data that hold a record
\* at any depth
AreaKeys(db) == { first_segment(ak) : ak \in DOMAIN db }

\* the records written to the node of the path ak
Children(db, ak) == IF ak \in DOMAIN db THEN db[ak] ELSE <<>>

\* the keys of a JSON object as the database sends them: in key order
InKeyOrder(K) ==
    LET rank == [k \in K |-> Cardinality({ j \in K : StrLess(j, k) })]
    IN [i \in 1..Cardinality(K) |-> CHOOSE k \in K : rank[k] = i - 1]

\* the children of the node ak that are nodes themselves, not records:
\* one for each longer path written to, under its next segment (taken
\* to start with a letter, so that they follow the record keys)
Nested(db, ak) ==
    LET rests == { first_segment(SubSeq(p, Len(ak) + 2, Len(p))) :
                     p \in { q \in DOMAIN db : Len(q) > Len(ak) + 1
                                                /\ SubSeq(q, 1, Len(ak) + 1) = ak \o <<47>> } }
        keys == InKeyOrder(rests)
    IN [i \in 1..Len(keys) |-> [key |-> keys[i], value |-> [node |-> keys[i]]]]

\* how many of the entries c[lo+1..hi] have a key below k, plus lo
RECURSIVE KeysBelow(_, _, _, _)
KeysBelow(c, k, lo, hi) ==
    IF lo = hi THEN lo
    ELSE LET mid == (lo + hi + 1) \div 2
         IN IF StrLess(c[mid].key, k) THEN KeysBelow(c, k, mid, hi)
            ELSE KeysBelow(c, k, lo, mid - 1)

\* DB_REF.child(ak).order_by_key().limit_to_first(n).get(): the records of
\* the n smallest keys, in ascending key order
limit_to_first(db, ak, n) ==
    LET c == Children(db, ak) \o Nested(db, ak)
    IN [i \in 1..Min(n, Len(c)) |-> c[i].value]

\* a set() that leaves the entry of an equal key as it is
child_set_first(db, ak, key, data) ==
    LET c == Children(db, ak)
        p == KeysBelow(c, key, 0, Len(c))
        entry == [key |-> key, value |-> data]
        children == IF p < Len(c) /\ c[p + 1].key = key
                    THEN c
                    ELSE SubSeq(c, 1, p) \o <<entry>> \o SubSeq(c, p + 1, Len(c))
    IN [a \in (DOMAIN db) \cup {ak} |-> IF a = ak THEN children ELSE db[a]]

\* DB_REF.child(ak).child(key).set(data): insert, or overwrite the entry of
\* an equal key
child_set(db, ak, key, data) ==
    LET c == Children(db, ak)
        p == KeysBelow(c, key, 0, Len(c))
        entry == [key |-> key, value |-> data]
        children == IF p < Len(c) /\ c[p + 1].key = key
                    THEN [c EXCEPT ![p + 1] = entry]
                    ELSE SubSeq(c, 1, p) \o <<entry>> \o SubSeq(c, p + 1, Len(c))
    IN [a \in (DOMAIN db) \cup {ak} |-> IF a = ak THEN children ELSE db[a]]

EmptyStore == [a \in {} |-> <<>>]

\* the number of records the store holds
RECURSIVE Size(_)
Size(db) ==
    IF DOMAIN db = {} THEN 0
    ELSE LET a == CHOOSE x \in DOMAIN db : TRUE
         IN Len(db[a]) + Size([x \in (DOMAIN db) \ {a} |-> db[x]])

----------------------------------------------------------------------------
(* Derived fields *)

CA_FACTOR == 2497
MG_FACTOR == 4118

\* record.get(field): <<value>>, or <<>> for None when the field is missing
Get(record, field) == IF field \in DOMAIN record THEN <<record[field]>> ELSE <<>>

\* calculate_total_hardness, in hundredths of mg/L (Ca, Mg in whole mg/L,
\* the factors in thousandths): round(x, 2) of a value given in thousandths
calculate_total_hardness(ca, mg) ==
    IF ca = <<>> \/ mg = <<>>
    THEN 0
    ELSE LET x == ca[1] * CA_FACTOR + mg[1] * MG_FACTOR
             q == x \div 10
             r == x % 10
         IN IF r > 5 \/ (r = 5 /\ q % 2 = 1) THEN q + 1 ELSE q

\* a variant of classify_water_quality whose class bounds include the bound
classify_water_quality_inclusive(tds, total_hardness) ==
    [hardness_class |->
        IF total_hardness <= 6000 THEN "Soft"
        ELSE IF total_hardness <= 12000 THEN "Moderately Hard"
        ELSE IF total_hardness <= 18000 THEN "Hard"
        ELSE "Very Hard",
     tds_status |-> IF tds <= 500 THEN "Safe" ELSE "Above Recommended Limit",
     is_safe_for_drinking |-> (tds <= 500 /\ total_hardness <= 20000)]

\* classify_water_quality; total_hardness in hundredths of mg/L
classify_water_quality(tds, total_hardness) ==
    [hardness_class |->
        IF total_hardness < 6000 THEN "Soft"
        ELSE IF total_hardness < 12000 THEN "Moderately Hard"
        ELSE IF total_hardness < 18000 THEN "Hard"
        ELSE "Very Hard",
     tds_status |-> IF tds <= 500 THEN "Safe" ELSE "Above Recommended Limit",
     is_safe_for_drinking |-> (tds <= 500 /\ total_hardness <= 20000)]

\* HARDNESS_STANDARDS of the ML layer (water_modeler.py), in thousandths of
\* mg/L
HARDNESS_STANDARDS ==
    [k \in {"Soft", "Moderately Hard", "Hard"} |->
        CASE k = "Soft" -> 75000
          [] k = "Moderately Hard" -> 150000
          [] k = "Hard" -> 300000]

\* WaterQualityModeler.calculate_total_hardness, in thousandths of mg/L (the
\* same factors, in thousandths): the sum as it is, not rounded
WaterQualityModeler_calculate_total_hardness(ca_mg_l, mg_mg_l) ==
    ca_mg_l * CA_FACTOR + mg_mg_l * MG_FACTOR

\* WaterQualityModeler.classify_hardness; hardness in thousandths of mg/L
classify_hardness(hardness) ==
    IF hardness < HARDNESS_STANDARDS["Soft"] THEN "Soft"
    ELSE IF hardness < HARDNESS_STANDARDS["Moderately Hard"] THEN "Moderately Hard"
    ELSE IF hardness < HARDNESS_STANDARDS["Hard"] THEN "Hard"
    ELSE "Very Hard"

\* WaterQualityModeler.get_latest_data, for one area: of the body that
\* /get_history?area=..&limit=1 answered with, response.json().get('data',
\* [])[0] if there is one: <<the record>>, or <<>> for an area left out
get_latest_data(body) ==
    IF "data" \in DOMAIN body /\ Len(body.data) > 0 THEN <<body.data[1]>> ELSE <<>>

\* a variant of Enrich that keeps derived fields the record already has
Enrich_keeping(record) ==
    LET hardness == IF "total_hardness" \in DOMAIN record THEN record.total_hardness
                    ELSE calculate_total_hardness(Get(record, "Ca"), Get(record, "Mg"))
    IN With(With(record, "total_hardness", hardness),
            "classification",
            IF "classification" \in DOMAIN record THEN record.classification
            ELSE classify_water_quality(record.TDS, hardness))

\* the two assignments get_latest and get_history make on a record
Enrich(record) ==
    LET hardness == calculate_total_hardness(Get(record, "Ca"), Get(record, "Mg"))
    IN With(With(record, "total_hardness", hardness),
            "classification", classify_water_quality(record.TDS, hardness))

----------------------------------------------------------------------------
(* The data layer's endpoints (app.py) *)

\* f"Bearer {os.getenv('IOT_DEVICE_SECRET')}": None formats as "None"
expected_token == "Bearer " \o (IF IOT_DEVICE_SECRET.set THEN IOT_DEVICE_SECRET.val ELSE "None")

\* not data or not all(field in data for field in required_fields)
Incomplete(data) == data = None \/ ~(required_fields \subseteq DOMAIN data)

\* the record ingest_data writes: the payload stamped with the clock
Stamped(data) == With(data, "timestamp", strftime_iso(now))

\* a variant of ingest_outcome that looks at the database before the token
ingest_outcome_db_first(auth_header, data, write_fails) ==
    IF DB_REF = "None" THEN [status |-> 500, error |-> "database"]
    ELSE IF auth_header # expected_token THEN [status |-> 401, error |-> "auth"]
    ELSE IF Incomplete(data) THEN [status |-> 400, error |-> "payload"]
    ELSE IF write_fails THEN [status |-> 500, error |-> "write"]
    ELSE [status |-> 201, error |-> ""]

\* the checks of ingest_data in their order, and the status each ends in
ingest_outcome(auth_header, data, write_fails) ==
    IF auth_header # expected_token THEN [status |-> 401, error |-> "auth"]
    ELSE IF DB_REF = "None" THEN [status |-> 500, error |-> "database"]
    ELSE IF Incomplete(data) THEN [status |-> 400, error |-> "payload"]
    ELSE IF write_fails THEN [status |-> 500, error |-> "write"]
    ELSE [status |-> 201, error |-> ""]

\* POST /ingest.  write_fails: the set() call raises.
ingest_data(auth_header, data, write_fails) ==
    LET req == [op |-> "ingest", auth_header |-> auth_header, data |-> data,
                fault |-> write_fails]
        outcome == ingest_outcome(auth_header, data, write_fails)
    IN
    /\ UNCHANGED <<now, DB_REF, IOT_DEVICE_SECRET>>
    /\ IF outcome.status = 201
       THEN LET record == Stamped(data)
            IN /\ store' = child_set(store, area_key(record.area),
                                     reversed_key(record.timestamp), record)
               /\ last' = [req |-> req, status |-> 201,
                           body |-> [timestamp |-> record.timestamp]]
       ELSE /\ last' = [req |-> req, status |-> outcome.status,
                        body |-> [error |-> outcome.error]]
            /\ UNCHANGED store

\* GET /get_areas.  read_fails: the get() call raises.
get_areas(read_fails) ==
    /\ UNCHANGED <<store, now, DB_REF, IOT_DEVICE_SECRET>>
    /\ last' =
         LET req == [op |-> "get_areas", fault |-> read_fails]
             areas_data == AreaKeys(store)
             keys == InKeyOrder(areas_data)
         IN
         IF DB_REF = "None"
         THEN [req |-> req, status |-> 503, body |-> [error |-> "database"]]
         ELSE IF read_fails
         THEN [req |-> req, status |-> 500, body |-> [error |-> "read"]]
         ELSE IF areas_data = {}
         THEN [req |-> req, status |-> 200, body |-> [areas |-> <<>>]]
         ELSE [req |-> req, status |-> 200,
               body |-> [areas |-> [i \in 1..Len(keys) |-> display_name(keys[i])]]]

\* GET /get_latest.  list_fails: the shallow get() raises; failing: the area
\* keys whose range query raises.
get_latest(list_fails, failing) ==
    /\ UNCHANGED <<store, now, DB_REF, IOT_DEVICE_SECRET>>
    /\ last' =
         LET req == [op |-> "get_latest", fault |-> list_fails, failing |-> failing]
             all_area_keys == AreaKeys(store)
             keys == InKeyOrder(all_area_keys)
             \* a later key of the loop overwrites an earlier one of the same name
             key_of(name) ==
                 keys[CHOOSE i \in 1..Len(keys) :
                         /\ display_name(keys[i]) = name
                         /\ \A j \in (i + 1)..Len(keys) : display_name(keys[j]) # name]
             latest_data ==
                 [name \in { display_name(k) : k \in all_area_keys } |->
                     Enrich(limit_to_first(store, key_of(name), 1)[1])]
         IN
         IF DB_REF = "None"
         THEN [req |-> req, status |-> 500, body |-> [error |-> "database"]]
         ELSE IF list_fails
         THEN [req |-> req, status |-> 500, body |-> [error |-> "read"]]
         ELSE IF all_area_keys = {}
         THEN [req |-> req, status |-> 200, body |-> [message |-> "No data available."]]
         ELSE IF failing \cap all_area_keys # {}
         THEN [req |-> req, status |-> 500, body |-> [error |-> "read"]]
         ELSE IF \E k \in all_area_keys : "TDS" \notin DOMAIN limit_to_first(store, k, 1)[1]
         THEN [req |-> req, status |-> 500, body |-> [error |-> "KeyError"]]
         ELSE [req |-> req, status |-> 200, body |-> [latest |-> latest_data]]

\* history.sort(key=lambda x: x['timestamp']): ascending by the timestamp
\* strings; the records of one area carry different timestamps, so no two
\* compare equal
sort_by_timestamp(history) ==
    SortSeq(history, LAMBDA x, y : StrLess(x.timestamp, y.timestamp))

HISTORY_LIMIT == 100

\* a variant of history_outcome without the check for an empty result
history_outcome_no_404(area, data, read_fails) ==
    IF area = <<>> THEN [status |-> 400, error |-> "area"]
    ELSE IF DB_REF = "None" THEN [status |-> 500, error |-> "database"]
    ELSE IF read_fails THEN [status |-> 500, error |-> "read"]
    ELSE [status |-> 200, error |-> ""]

\* a variant of history_outcome that takes a failed query for an empty one
history_outcome_swallow(area, data, read_fails) ==
    IF area = <<>> THEN [status |-> 400, error |-> "area"]
    ELSE IF DB_REF = "None" THEN [status |-> 500, error |-> "database"]
    ELSE IF read_fails \/ Len(data) = 0 THEN [status |-> 404, error |-> ""]
    ELSE [status |-> 200, error |-> ""]

\* the checks of get_history in their order, and the status each ends in;
\* data is what the range query returned
history_outcome(area, data, read_fails) ==
    IF area = <<>> THEN [status |-> 400, error |-> "area"]
    ELSE IF DB_REF = "None" THEN [status |-> 500, error |-> "database"]
    ELSE IF read_fails THEN [status |-> 500, error |-> "read"]
    ELSE IF Len(data) = 0 THEN [status |-> 404, error |-> ""]
    ELSE [status |-> 200, error |-> ""]

\* GET /get_history?area=..&limit=..; area <<>> is a missing (or empty)
\* parameter.  The handler never reads limit.  read_fails: the query raises.
get_history(area, limit, read_fails) ==
    /\ UNCHANGED <<store, now, DB_REF, IOT_DEVICE_SECRET>>
    /\ last' =
         LET req == [op |-> "get_history", area |-> area, limit |-> limit,
                     fault |-> read_fails]
             data == limit_to_first(store, area_key(area), HISTORY_LIMIT)
             outcome == history_outcome(area, data, read_fails)
             history == sort_by_timestamp(data)
             processed_history == [i \in 1..Len(history) |-> Enrich(history[i])]
         IN
         IF outcome.status = 200 /\ \E i \in 1..Len(data) : "timestamp" \notin DOMAIN data[i]
         THEN [req |-> req, status |-> 500, body |-> [error |-> "KeyError"]]
         ELSE IF outcome.status = 200
         THEN [req |-> req, status |-> 200,
               body |-> [area |-> area, record_count |-> Len(processed_history),
                         data |-> processed_history]]
         ELSE IF outcome.status = 404
         THEN [req |-> req, status |-> 404, body |-> [message |-> "No data found"]]
         ELSE [req |-> req, status |-> outcome.status, body |-> [error |-> outcome.error]]

----------------------------------------------------------------------------
(* The data generator (simulator.py) *)

\* one generated row: the area in display form, hardness in hundredths
Row(area, t) ==
    [timestamp |-> strftime_iso(t), area |-> display_name(area), pH |-> 75,
     TDS |-> 700, Ca |-> 90, Mg |-> 45, turbidity |-> 20, chlorine |-> 0,
     hardness |-> 41000]

Rows == { Row(a, t) : a \in ALL_AREAS, t \in Instants }

\* push_to_firebase(df): ref.delete(), then one set() per row
RECURSIVE PushRows(_, _)
PushRows(db, df) ==
    IF df = {} THEN db
    ELSE LET row == CHOOSE r \in df : TRUE
         IN PushRows(child_set(db, area_key(row.area), timestamp_key(row.timestamp), row),
                     df \ {row})

push_to_firebase(df) ==
    /\ store' = PushRows(EmptyStore, df)
    /\ last' = [req |-> [op |-> "push_to_firebase"], status |-> 0, body |-> [rows |-> Cardinality(df)]]
    /\ UNCHANGED <<now, DB_REF, IOT_DEVICE_SECRET>>

----------------------------------------------------------------------------
(* The device (iot_client.py) *)

DEVICE_AREA == <<87>>
TDS_MEAN == 1050
HARDNESS_JITTER == 20
SLEEP_SECONDS == 15

\* generate_sensor_reading: the n-th reading, its jitter within
\* -HARDNESS_JITTER..HARDNESS_JITTER
generate_sensor_reading(n) ==
    Reading(DEVICE_AREA, TDS_MEAN + ((n * 7) % (2 * HARDNESS_JITTER + 1)) - HARDNESS_JITTER)

DaysIn(y, mo) ==
    IF mo = 2
    THEN (IF y % 4 = 0 /\ (y % 100 # 0 \/ y % 400 = 0) THEN 29 ELSE 28)
    ELSE IF mo \in {4, 6, 9, 11} THEN 30 ELSE 31

NextSecond(t) ==
    IF t.s < 59 THEN [t EXCEPT !.s = t.s + 1]
    ELSE IF t.m < 59 THEN [t EXCEPT !.s = 0, !.m = t.m + 1]
    ELSE IF t.h < 23 THEN [t EXCEPT !.s = 0, !.m = 0, !.h = t.h + 1]
    ELSE IF t.D < DaysIn(t.Y, t.M) THEN [t EXCEPT !.s = 0, !.m = 0, !.h = 0, !.D = t.D + 1]
    ELSE IF t.M < 12 THEN [t EXCEPT !.s = 0, !.m = 0, !.h = 0, !.D = 1, !.M = t.M + 1]
    ELSE [t EXCEPT !.s = 0, !.m = 0, !.h = 0, !.D = 1, !.M = 1, !.Y = t.Y + 1]

\* the clock n seconds after t, for n up to a minute
AddSeconds(t, n) ==
    IF t.s + n < 60 THEN [t EXCEPT !.s = t.s + n]
    ELSE [NextSecond([t EXCEPT !.s = 59]) EXCEPT !.s = t.s + n - 60]

\* send_data(): one authenticated POST of a fresh reading
send_data ==
    LET reading == generate_sensor_reading(Len(device_log))
        header == "Bearer " \o (IF IOT_DEVICE_SECRET.set THEN IOT_DEVICE_SECRET.val ELSE "None")
    IN
    /\ device_pc = "send"
    /\ Len(device_log) < MaxStream
    /\ ingest_data(header, reading, FALSE)
    /\ device_log' = Append(device_log, [reading |-> reading, response |-> last'])
    /\ device_pc' = "sleep"
    /\ UNCHANGED ml_vars

\* time.sleep(15)
device_sleep ==
    /\ device_pc = "sleep"
    /\ now' = AddSeconds(now, SLEEP_SECONDS)
    /\ device_pc' = "send"
    /\ UNCHANGED <<store, DB_REF, IOT_DEVICE_SECRET, last, device_log>>
    /\ UNCHANGED ml_vars

----------------------------------------------------------------------------
(* The forecast engine (water_modeler.py)                                  *)
(* fc.pc is the place of the predict_area_trend call: at a history         *)
(* "request", in the "sleep" between two attempts, at the "fallback" after *)
(* the last attempt, at the "fit" of the model, or "done".  fc.trace lists *)
(* the requests made and the waits taken.  Timestamps of a history are     *)
(* whole hours, delays tenths of a second; a TDS cell is <<v>> for v whole *)
(* mg/L and <<>> for a JSON null.                                          *)

\* self.areas, as _fetch_areas left it
self_areas == << <<65, SP, 66>>, <<67>> >>

max_retries == 3
base_delay == 5
HISTORY_WINDOW == 30

\* a variant of sleep_time that waits the base delay every time
sleep_time_constant(attempt) == base_delay

\* base_delay * (2 ** (attempt - 1))
sleep_time(attempt) == base_delay * (2 ^ (attempt - 1))

\* what one GET /get_history can do to its caller: fail (no connection, a
\* time-out, an error status, a body that is no JSON object), answer with
\* no records, or answer with records
Sample(ts, tds) == [timestamp |-> ts, TDS |-> <<tds>>]

Histories ==
    { << Sample(0, 400) >>,
      << Sample(0, 400), Sample(5, 420) >>,
      << Sample(0, 400), Sample(30, 420) >>,
      << Sample(0, 400), Sample(5, 410) >>,
      << Sample(0, 400), Sample(24, 403), Sample(48, 404) >>,
      << Sample(48, 430), Sample(0, 400) >>,
      << [timestamp |-> 0, TDS |-> <<>>], Sample(48, 410) >>,
      << [timestamp |-> 0], [timestamp |-> 24] >> }

Replies ==
    { [kind |-> "fail"], [kind |-> "empty"] }
    \cup { [kind |-> "data", data |-> d] : d \in Histories }

\* self.areas.index(area): the place of area in the list, from 0; <<>> when
\* it is not in the list, where index raises ValueError
index(list, x) ==
    IF \E i \in 1..Len(list) : list[i] = x
    THEN << (CHOOSE i \in 1..Len(list) : list[i] = x /\ \A j \in 1..(i - 1) : list[j] # x) - 1 >>
    ELSE <<>>

\* the jitter random.uniform(-10, 10) adds to record i, one of the series
\* the generator can draw
Jitters == {"none", "low", "swing"}

jitter(j, i) ==
    IF j = "none" THEN 0
    ELSE IF j = "low" THEN -10
    ELSE IF i % 2 = 0 THEN 10 ELSE -10

\* the mock series of _get_history_df: limit records a day apart, the last
\* one stamped now
mock_data(area, limit, j) ==
    LET base_tds == 350 + ((index(self_areas, area)[1] * 50) % 200)
    IN [k \in 1..limit |->
          [area |-> area,
           timestamp |-> 24 * (k - 1),
           TDS |-> << base_tds + jitter(j, k - 1) + ((k - 1) * 5) \div 10 >>]]

\* DataFrame(data).empty or 'TDS' not in its columns
no_tds(df) == Len(df) = 0 \/ \A i \in 1..Len(df) : "TDS" \notin DOMAIN df[i]

\* a cell of the TDS column is NaN: the record has no TDS, or a null
is_nan(record) == "TDS" \notin DOMAIN record \/ record.TDS = <<>>

\* df.sort_values(by='timestamp')
sort_values(df) == SortSeq(df, LAMBDA x, y : x.timestamp < y.timestamp)

seq_min(q) == CHOOSE v \in { q[i] : i \in 1..Len(q) } : \A i \in 1..Len(q) : v <= q[i]
seq_max(q) == CHOOSE v \in { q[i] : i \in 1..Len(q) } : \A i \in 1..Len(q) : v >= q[i]

RECURSIVE Sum(_, _)
Sum(q, i) == IF i > Len(q) THEN 0 ELSE q[i] + Sum(q, i + 1)

\* (timestamp - timestamp.min()).dt.days: whole days since the first record
time_index(df) ==
    LET first == seq_min([i \in 1..Len(df) |-> df[i].timestamp])
    IN [i \in 1..Len(df) |-> (df[i].timestamp - first) \div 24]

\* LinearRegression().fit(X, y): the least-squares line as the fraction
\* (a + b * x) / d; with all x equal the slope is 0 and the line is the mean
fit(X, y) ==
    LET n == Len(X)
        sx == Sum(X, 1)
        sy == Sum(y, 1)
        sxx == n * Sum([i \in 1..n |-> X[i] * X[i]], 1) - sx * sx
        sxy == n * Sum([i \in 1..n |-> X[i] * y[i]], 1) - sx * sy
    IN IF sxx = 0 THEN [a |-> sy, b |-> 0, d |-> n]
       ELSE [a |-> sy * sxx - sxy * sx, b |-> sxy * n, d |-> n * sxx]

\* a variant of future_indices that stops one step early
future_indices_short(last_index, future_steps) ==
    [i \in 1..(future_steps - 1) |-> last_index + i]

\* np.arange(last_index + 1, last_index + future_steps + 1)
future_indices(last_index, future_steps) ==
    [i \in 1..future_steps |-> last_index + i]

\* the part of predict_area_trend behind the history fetch
trend_of(area, future_steps, res) ==
    LET source == res.source
        insufficient ==
            [kind |-> "return",
             value |-> [area |-> area, predictions |-> <<>>, model_used |-> "None",
                        trend_message |-> [text |-> "insufficient"], source |-> source]]
    IN IF no_tds(res.df) THEN insufficient
       ELSE LET df_history == sort_values(res.df)
                X == time_index(df_history)
            IN IF \E i \in 1..Len(df_history) : is_nan(df_history[i])
               THEN [kind |-> "return",
                     value |-> [area |-> area, predictions |-> <<>>,
                                model_used |-> "LinearRegression",
                                trend_message |-> [text |-> "training error"]]]
               ELSE LET y == [i \in 1..Len(df_history) |-> df_history[i].TDS[1]]
                        line == fit(X, y)
                        future == future_indices(seq_max(X), future_steps)
                    IN IF Len(future) = 0
                       THEN [kind |-> "raise", error |-> "ValueError"]
                       ELSE LET last_day == seq_max([i \in 1..Len(df_history) |-> df_history[i].timestamp])
                                predicted == [i \in 1..Len(future) |-> line.a + line.b * future[i]]
                                change == predicted[Len(predicted)] - y[Len(y)] * line.d
                                trend == IF change < 5 * line.d /\ change > -5 * line.d THEN "stable"
                                         ELSE IF change > 0 THEN "increasing"
                                         ELSE "decreasing"
                            IN [kind |-> "return",
                                value |-> [area |-> area,
                                           predictions |->
                                              [i \in 1..Len(predicted) |->
                                                 [date |-> last_day + 24 * i,
                                                  predicted_tds |-> [num |-> predicted[i], den |-> line.d]]],
                                           model_used |-> "LinearRegression",
                                           trend_message |->
                                              [text |-> trend,
                                               tds_change |-> [num |-> change, den |-> line.d]],
                                           source |-> source]]

\* predict_area_trend(area, future_steps) is called
predict_area_trend(area, future_steps) ==
    /\ fc.pc \in {"idle", "done"}
    /\ fc' = [pc |-> "request", area |-> area, future_steps |-> future_steps,
              attempt |-> 1, trace |-> <<>>]

\* _get_history_df: one requests.get of the loop and what follows it up to
\* the next sleep, the return of real data, or the end of the loop
history_request(reply) ==
    /\ fc.pc = "request"
    /\ LET trace == Append(fc.trace, [step |-> "request", attempt |-> fc.attempt, reply |-> reply])
       IN fc' = IF reply.kind = "data"
                THEN [fc EXCEPT !.pc = "fit", !.trace = trace] @@
                     ("res" :> [df |-> reply.data, source |-> "real"])
                ELSE IF fc.attempt < max_retries
                THEN [fc EXCEPT !.pc = "sleep", !.trace = trace]
                ELSE [fc EXCEPT !.pc = "fallback", !.trace = trace]

\* _get_history_df: _time_module.sleep(sleep_time), then the next attempt
history_sleep ==
    /\ fc.pc = "sleep"
    /\ fc' = [fc EXCEPT !.pc = "request",
                        !.attempt = fc.attempt + 1,
                        !.trace = Append(fc.trace, [step |-> "sleep", delay |-> sleep_time(fc.attempt)])]

\* _get_history_df after the loop: the mock series, or the ValueError of
\* self.areas.index for an area the list does not hold
history_fallback(j) ==
    /\ fc.pc = "fallback"
    /\ fc' = IF index(self_areas, fc.area) = <<>>
             THEN [fc EXCEPT !.pc = "done"] @@ ("out" :> [kind |-> "raise", error |-> "ValueError"])
             ELSE [fc EXCEPT !.pc = "fit"] @@
                  ("res" :> [df |-> mock_data(fc.area, HISTORY_WINDOW, j), source |-> "mock"])

\* predict_area_trend from the return of _get_history_df to its own return
predict_finish ==
    /\ fc.pc = "fit"
    /\ fc' = [fc EXCEPT !.pc = "done"] @@ ("out" :> trend_of(fc.area, fc.future_steps, fc.res))

----------------------------------------------------------------------------
(* Treatment jobs (ml_api.py) *)

\* at most this many jobs are registered
MaxJobs == 2

JobIds == 1..MaxJobs

\* Python floats, as far as the tracker can tell them apart
Fin(v) == [kind |-> "fin", v |-> v]
Inf == [kind |-> "inf"]

\* float(text) for the texts of TimeScales: <<value>>, or <<>> for ValueError
float(text) ==
    CASE text = "0" -> <<Fin(0)>>
      [] text = "1" -> <<Fin(1)>>
      [] OTHER -> <<>>

\* os.environ's TREATMENT_TIME_SCALE: unset, or one of two texts
TimeScales ==
    { [set |-> FALSE, val |-> ""], [set |-> TRUE, val |-> "0"], [set |-> TRUE, val |-> "fast"] }

\* the calls of /start_treatment: the JSON body posted, and what
\* _get_latest_hardness_for_area then returns, in hundredths of a mg/L:
\* <<>> for None, else a float
StartCall(area, volume_liters, flow_L_per_min, hardness) ==
    [data |-> [area |-> area, device |-> "RO", volume_liters |-> volume_liters,
               flow_L_per_min |-> flow_L_per_min],
     hardness |-> hardness]

StartCalls ==
    { StartCall(<<67>>, Fin(10), Fin(2), <<12345>>),
      StartCall(<<67>>, Inf, Fin(2), <<>>),
      StartCall(<<67>>, Fin(10), Fin(0), <<>>),
      StartCall(<<>>, Fin(10), Fin(2), <<>>),
      StartCall(<<67>>, Fin(0), Fin(2), <<12345>>) }

\* removal_efficiency, in percent: the default of start_treatment
REMOVAL_EFFICIENCY == 95

\* a float > 0
positive(x) == x.kind = "inf" \/ x.v > 0

\* volume_liters / flow_L_per_min, the samples dividing exactly
est_minutes(volume_liters, flow_L_per_min) ==
    IF ~positive(flow_L_per_min)
    THEN <<>>
    ELSE IF volume_liters.kind = "inf"
    THEN <<Inf>>
    ELSE <<Fin(volume_liters.v \div flow_L_per_min.v)>>

\* the job dictionary start_treatment registers
new_job(job_id, data) ==
    [job_id |-> job_id,
     status |-> "queued",
     progress |-> 0,
     area |-> data.area,
     device |-> data.device,
     volume_liters |-> data.volume_liters,
     estimated_minutes |-> est_minutes(data.volume_liters, data.flow_L_per_min),
     result |-> <<>>,
     error |-> <<>>]

\* x or 0.0
or_zero(x) == IF x = <<>> THEN Fin(0) ELSE x[1]

\* no job_status request in progress
NoStatus == [pc |-> "idle"]

\* start_treatment: 400 for a body without area, device or a positive volume;
\* else the job registered under the lock and its thread started
start_treatment(data, hardness) ==
    IF data.area = <<>> \/ data.device = "" \/ ~positive(data.volume_liters)
    THEN /\ last' = [req |-> [op |-> "start_treatment"],
                     status |-> 400,
                     body |-> [error |-> "Missing parameters (area, device, volume_liters)"]]
         /\ UNCHANGED job_vars
    ELSE /\ Len(JOBS) < MaxJobs
         /\ JOBS_LOCK = 0
         /\ LET job_id == Len(JOBS) + 1
                job == new_job(job_id, data)
            IN /\ JOBS' = Append(JOBS, job)
               /\ committed' = [committed EXCEPT ![job_id] = <<job>>]
               /\ worker' = [worker EXCEPT ![job_id] =
                                [pc |-> "start",
                                 duration_minutes |-> or_zero(job.estimated_minutes),
                                 device |-> data.device,
                                 area |-> data.area,
                                 volume_liters |-> data.volume_liters,
                                 current_hardness |-> IF hardness = <<>> THEN 0 ELSE hardness[1],
                                 removal_efficiency |-> REMOVAL_EFFICIENCY]]
               /\ last' = [req |-> [op |-> "start_treatment"],
                           status |-> 200,
                           body |-> [job_id |-> job_id,
                                     estimated_minutes |-> job.estimated_minutes,
                                     status |-> "started"]]
         /\ UNCHANGED <<JOBS_LOCK, client, seen>>

\* the lock released after an update of job_id
release(job_id, jobs) ==
    /\ JOBS_LOCK' = 0
    /\ committed' = [committed EXCEPT ![job_id] = Append(@, jobs[job_id])]

\* what the exception handler of _run_treatment_job catches
Raised(type, text) == [type |-> type, text |-> text]

steps == 10

\* step_sleep in milliseconds for a scale that is a positive number:
\* max(0.1, duration_minutes / scale) / steps
step_sleep(duration_minutes, scale) ==
    IF duration_minutes.kind = "inf"
    THEN Inf
    ELSE LET ms == (duration_minutes.v * 1000) \div scale.v
         IN Fin((IF ms > 100 THEN ms ELSE 100) \div steps)

\* scale, sleep_seconds and step_sleep: the worker goes on to its loop, or
\* to the handler with the ValueError of float() or the ZeroDivisionError
timing(w, env) ==
    LET scale == float(IF env.set THEN env.val ELSE "1")
    IN IF scale = <<>>
       THEN [w EXCEPT !.pc = "except"] @@
            ("e" :> Raised("ValueError", "could not convert string to float"))
       ELSE IF scale[1] = Fin(0)
       THEN [w EXCEPT !.pc = "except"] @@
            ("e" :> Raised("ZeroDivisionError", "float division by zero"))
       ELSE [w EXCEPT !.pc = "loop"] @@
            ("i" :> 0) @@ ("step_sleep" :> step_sleep(w.duration_minutes, scale[1]))

\* _run_treatment_job: with JOBS_LOCK, JOBS[job_id]['status'] = 'running'
run_treatment_job_begin(job_id) ==
    /\ worker[job_id].pc = "start"
    /\ JOBS_LOCK = 0
    /\ JOBS_LOCK' = job_id
    /\ JOBS' = [JOBS EXCEPT ![job_id].status = "running"]
    /\ worker' = [worker EXCEPT ![job_id].pc = "set_progress"]
    /\ UNCHANGED <<client, seen, committed>>

\* JOBS[job_id]['progress'] = 0, the lock released, and the timing of the
\* loop worked out
run_treatment_job_set_progress(job_id, env) ==
    /\ worker[job_id].pc = "set_progress"
    /\ JOBS' = [JOBS EXCEPT ![job_id].progress = 0]
    /\ release(job_id, JOBS')
    /\ worker' = [worker EXCEPT ![job_id] = timing(@, env)]
    /\ UNCHANGED <<client, seen>>

\* int(((i + 1) / steps) * 100)
progress_remaining(i) == 100 - (i * 100) \div steps
progress_of(i) == ((i + 1) * 100) \div steps

\* one turn of the loop: sleep(step_sleep), which raises OverflowError for
\* an infinite time, then the progress written under the lock
run_treatment_job_step(job_id) ==
    /\ worker[job_id].pc = "loop"
    /\ IF worker[job_id].step_sleep = Inf
       THEN /\ worker' = [worker EXCEPT ![job_id] =
                             [@ EXCEPT !.pc = "except"] @@
                             ("e" :> Raised("OverflowError", "timestamp out of range for platform time_t"))]
            /\ UNCHANGED <<JOBS, JOBS_LOCK, committed>>
       ELSE /\ JOBS_LOCK = 0
            /\ JOBS' = [JOBS EXCEPT ![job_id].progress = progress_of(worker[job_id].i)]
            /\ release(job_id, JOBS')
            /\ worker' = [worker EXCEPT ![job_id].i = @ + 1,
                                        ![job_id].pc = IF worker[job_id].i + 1 < steps
                                                       THEN "loop" ELSE "finish"]
    /\ UNCHANGED <<client, seen>>

\* round(max(0.0, (1.0 - removal_efficiency) * float(current_hardness)), 2),
\* in hundredths
final_hardness(current_hardness, removal_efficiency) ==
    LET x == (100 - removal_efficiency) * current_hardness
        q == x \div 100
        r == x % 100
        rounded == IF r > 50 \/ (r = 50 /\ q % 2 = 1) THEN q + 1 ELSE q
    IN IF rounded > 0 THEN rounded ELSE 0

\* final_hardness computed, then with JOBS_LOCK,
\* JOBS[job_id]['status'] = 'completed'
run_treatment_job_finish(job_id) ==
    /\ worker[job_id].pc = "finish"
    /\ JOBS_LOCK = 0
    /\ JOBS_LOCK' = job_id
    /\ JOBS' = [JOBS EXCEPT ![job_id].status = "completed"]
    /\ worker' = [worker EXCEPT ![job_id] =
                     [@ EXCEPT !.pc = "set_full"] @@
                     ("final_hardness" :> final_hardness(@.current_hardness, @.removal_efficiency))]
    /\ UNCHANGED <<client, seen, committed>>

\* JOBS[job_id]['progress'] = 100
run_treatment_job_set_full(job_id) ==
    /\ worker[job_id].pc = "set_full"
    /\ JOBS' = [JOBS EXCEPT ![job_id].progress = 100]
    /\ worker' = [worker EXCEPT ![job_id].pc = "set_result"]
    /\ UNCHANGED <<JOBS_LOCK, client, seen, committed>>

\* JOBS[job_id]['result'] = {...}, the lock released, the thread over
run_treatment_job_set_result(job_id) ==
    /\ worker[job_id].pc = "set_result"
    /\ JOBS' = [JOBS EXCEPT ![job_id].result =
                   << [final_hardness_mg_l |-> worker[job_id].final_hardness,
                       device |-> worker[job_id].device,
                       area |-> worker[job_id].area,
                       volume_liters |-> worker[job_id].volume_liters] >>]
    /\ release(job_id, JOBS')
    /\ worker' = [worker EXCEPT ![job_id].pc = "done"]
    /\ UNCHANGED <<client, seen>>

\* the status the handler records
handler_status_kept == "running"
handler_status == "failed"

\* except Exception as e: with JOBS_LOCK, JOBS[job_id]['status'] = 'failed'
run_treatment_job_except(job_id) ==
    /\ worker[job_id].pc = "except"
    /\ JOBS_LOCK = 0
    /\ JOBS_LOCK' = job_id
    /\ JOBS' = [JOBS EXCEPT ![job_id].status = handler_status]
    /\ worker' = [worker EXCEPT ![job_id].pc = "set_error"]
    /\ UNCHANGED <<client, seen, committed>>

\* a variant of the handler's second write that records no error text
run_treatment_job_set_error_none(job_id) ==
    /\ worker[job_id].pc = "set_error"
    /\ JOBS' = JOBS
    /\ release(job_id, JOBS')
    /\ worker' = [worker EXCEPT ![job_id].pc = "done"]
    /\ UNCHANGED <<client, seen>>

\* JOBS[job_id]['error'] = str(e), the lock released, the thread over
run_treatment_job_set_error(job_id) ==
    /\ worker[job_id].pc = "set_error"
    /\ JOBS' = [JOBS EXCEPT ![job_id].error = <<worker[job_id].e.text>>]
    /\ release(job_id, JOBS')
    /\ worker' = [worker EXCEPT ![job_id].pc = "done"]
    /\ UNCHANGED <<client, seen>>

\* the fields of a job the worker writes, in the order of the sorted keys
\* of the JSON object
SortedKeys == <<"error", "progress", "result", "status">>

\* JOBS.get(job_id): <<the job>>, or <<>> for None
JOBS_get_started(jobs, job_id) ==
    IF job_id \in DOMAIN jobs /\ jobs[job_id].status # "queued" THEN <<jobs[job_id]>> ELSE <<>>
JOBS_get(jobs, job_id) ==
    IF job_id \in DOMAIN jobs THEN <<jobs[job_id]>> ELSE <<>>

\* job_status: the job looked up under the lock; 404 when there is none,
\* else the encoding of the job begins, the lock free again
job_status(job_id) ==
    /\ client.pc = "idle"
    /\ JOBS_LOCK = 0
    /\ IF JOBS_get(JOBS, job_id) = <<>>
       THEN /\ last' = [req |-> [op |-> "job_status", job_id |-> job_id],
                        status |-> 404,
                        body |-> [error |-> "Job not found"]]
            /\ UNCHANGED client
       ELSE /\ client' = [pc |-> "jsonify", job_id |-> job_id, k |-> 1,
                          body |-> [f \in {"job_id", "area", "device", "volume_liters",
                                           "estimated_minutes"} |-> JOBS[job_id][f]]]
            /\ UNCHANGED last
    /\ UNCHANGED <<JOBS, JOBS_LOCK, worker, seen, committed>>

\* jsonify(job): the next field of the shared dictionary read, no lock held
jsonify(c, job) ==
    LET f == SortedKeys[c.k]
    IN [c EXCEPT !.k = c.k + 1, !.body = c.body @@ (f :> job[f])]

\* one more field read; after the last one the response is sent
job_status_jsonify ==
    /\ client.pc = "jsonify"
    /\ LET c == jsonify(client, JOBS[client.job_id])
       IN IF c.k <= Len(SortedKeys)
          THEN /\ client' = c
               /\ UNCHANGED <<last, seen>>
          ELSE /\ client' = NoStatus
               /\ last' = [req |-> [op |-> "job_status", job_id |-> c.job_id],
                           status |-> 200,
                           body |-> c.body]
               /\ seen' = <<[job_id |-> c.job_id, progress |-> c.body.progress]>>
    /\ UNCHANGED <<JOBS, JOBS_LOCK, worker, committed>>

\* no job registered, no request in progress
NoJobs ==
    /\ JOBS = <<>>
    /\ JOBS_LOCK = 0
    /\ worker = [j \in JobIds |-> [pc |-> "none"]]
    /\ client = NoStatus
    /\ seen = <<>>
    /\ committed = [j \in JobIds |-> <<>>]

----------------------------------------------------------------------------
(* Specifications *)

NoRequest == [req |-> [op |-> "none"], status |-> 0, body |-> [none |-> TRUE]]

\* no predict_area_trend call has been made
NoCall == [pc |-> "idle"]

\* requests of the read endpoints
HistoryAreas == AreaNames \cup { <<>> }
Limits == {1, 30}

\* Every endpoint, the data generator and the clock, interleaved freely.
Init ==
    /\ store = EmptyStore
    /\ now = FirstInstant
    /\ DB_REF \in {"ref", "None"}
    /\ IOT_DEVICE_SECRET \in Secrets
    /\ last = NoRequest
    /\ device_pc = "off"
    /\ device_log = <<>>
    /\ fc = NoCall
    /\ NoJobs

Tick ==
    /\ \E t \in Instants : Before(now, t) /\ now' = t
    /\ UNCHANGED <<store, DB_REF, IOT_DEVICE_SECRET, last, device_pc, device_log>>
    /\ UNCHANGED ml_vars

Ingest ==
    /\ \E r \in IngestRequests, w \in BOOLEAN : ingest_data(r[1], r[2], w)
    /\ Size(store') <= MaxRecords
    /\ UNCHANGED <<device_pc, device_log>>
    /\ UNCHANGED ml_vars

GetAreas ==
    /\ \E f \in BOOLEAN : get_areas(f)
    /\ UNCHANGED <<device_pc, device_log>>
    /\ UNCHANGED ml_vars

GetLatest ==
    /\ \E f \in BOOLEAN, failing \in SUBSET AreaKeys(store) : get_latest(f, failing)
    /\ UNCHANGED <<device_pc, device_log>>
    /\ UNCHANGED ml_vars

GetHistory ==
    /\ \E a \in HistoryAreas, l \in Limits, f \in BOOLEAN : get_history(a, l, f)
    /\ UNCHANGED <<device_pc, device_log>>
    /\ UNCHANGED ml_vars

Push ==
    /\ \E df \in SUBSET Rows : Cardinality(df) <= MaxRows /\ push_to_firebase(df)
    /\ UNCHANGED <<device_pc, device_log>>
    /\ UNCHANGED ml_vars

Next == Tick \/ Ingest \/ GetAreas \/ GetLatest \/ GetHistory \/ Push

Spec == Init /\ [][Next]_vars

\* Several devices posting readings to /ingest, any number of them within
\* one second of the clock, while the areas and their latest records are
\* queried; device_log lists what each device sent and got back.  One
\* device reports for the area "N/E".
MaxIngests == 3

Devices ==
    /\ Len(device_log) < MaxIngests
    /\ \E reading \in CompletePayloads \cup { Reading(<<78, 47, 69>>, 400) }, w \in BOOLEAN :
          /\ ingest_data(expected_token, reading, w)
          /\ device_log' = Append(device_log, [reading |-> reading, response |-> last'])
    /\ UNCHANGED device_pc
    /\ UNCHANGED ml_vars

NextDevices == Tick \/ Devices \/ GetAreas \/ GetLatest

SpecDevices == Init /\ [][NextDevices]_vars

\* One device streaming readings of one area into an empty store, 15 seconds
\* apart, while the read endpoints are queried; the data generator is not
\* run.  The stream starts in 2025, or shortly before the year 9000.
StreamStarts ==
    { [Y |-> 2025, M |-> 11, D |-> 4, h |-> 9, m |-> 59, s |-> 45],
      [Y |-> 8999, M |-> 12, D |-> 31, h |-> 23, m |-> 50, s |-> 0] }

InitStream ==
    /\ store = EmptyStore
    /\ now \in StreamStarts
    /\ DB_REF = "ref"
    /\ IOT_DEVICE_SECRET = [set |-> TRUE, val |-> "s3cret"]
    /\ last = NoRequest
    /\ device_pc = "send"
    /\ device_log = <<>>
    /\ fc = NoCall
    /\ NoJobs

\* the requests below arrive while the device sleeps
StreamHistory ==
    /\ device_pc = "sleep"
    /\ get_history(DEVICE_AREA, 30, FALSE)
    /\ UNCHANGED <<device_pc, device_log>>
    /\ UNCHANGED ml_vars

StreamLatest ==
    /\ device_pc = "sleep"
    /\ get_latest(FALSE, {})
    /\ UNCHANGED <<device_pc, device_log>>
    /\ UNCHANGED ml_vars

NextStream == send_data \/ device_sleep \/ StreamHistory \/ StreamLatest

SpecStream == InitStream /\ [][NextStream]_vars

\* classify_water_quality applied to values around its bounds: TDS in mg/L,
\* hardness in hundredths of mg/L.
ClassifyTDS == {0, 1, 250, 499, 500, 501, 502, 750, 1000, 2000}

ClassifyHardness ==
    {0, 5999, 6000, 6001, 11999, 12000, 12001, 17999, 18000, 18001, 19999, 20000,
     20001, 41004}

InitClassify ==
    /\ store = EmptyStore
    /\ now = FirstInstant
    /\ DB_REF = "ref"
    /\ IOT_DEVICE_SECRET = [set |-> TRUE, val |-> "s3cret"]
    /\ last = NoRequest
    /\ device_pc = "off"
    /\ device_log = <<>>
    /\ fc = NoCall
    /\ NoJobs

Classify ==
    /\ \E tds \in ClassifyTDS, h \in ClassifyHardness :
          last' = [req |-> [op |-> "classify", tds |-> tds, total_hardness |-> h],
                   status |-> 0,
                   body |-> classify_water_quality(tds, h)]
    /\ UNCHANGED <<store, now, DB_REF, IOT_DEVICE_SECRET, device_pc, device_log>>
    /\ UNCHANGED ml_vars

\* both layers computing the hardness of one reading and its class: Ca and
\* Mg in whole mg/L; the data layer's total in hundredths of mg/L, the ML
\* layer's in thousandths
Hardness ==
    /\ \E ca \in {0, 1, 20, 24, 40, 80}, mg \in {0, 5, 20, 50} :
          last' = [req |-> [op |-> "hardness", Ca |-> ca, Mg |-> mg],
                   status |-> 0,
                   body |->
                     LET data == calculate_total_hardness(<<ca>>, <<mg>>)
                         ml == WaterQualityModeler_calculate_total_hardness(ca, mg)
                     IN [data |-> [total_hardness |-> data,
                                   hardness_class |->
                                       classify_water_quality(0, data).hardness_class],
                         ml |-> [total_hardness |-> ml,
                                 hardness_class |-> classify_hardness(ml)]]]
    /\ UNCHANGED <<store, now, DB_REF, IOT_DEVICE_SECRET, device_pc, device_log>>
    /\ UNCHANGED ml_vars

NextClassify == Classify \/ Hardness

SpecClassify == InitClassify /\ [][NextClassify]_vars

\* predict_area_trend called again and again, over a data layer that may
\* fail, answer without records, or answer with one of the sample histories.
ForecastAreas == AreaNames \cup { <<90>> }
FutureSteps == {0, 1, 7}

InitForecast ==
    /\ store = EmptyStore
    /\ now = FirstInstant
    /\ DB_REF = "ref"
    /\ IOT_DEVICE_SECRET = [set |-> TRUE, val |-> "s3cret"]
    /\ last = NoRequest
    /\ device_pc = "off"
    /\ device_log = <<>>
    /\ fc = NoCall
    /\ NoJobs

Predict ==
    /\ \E a \in ForecastAreas, n \in FutureSteps : predict_area_trend(a, n)
    /\ UNCHANGED data_vars
    /\ UNCHANGED job_vars

HistoryRequest ==
    /\ \E reply \in Replies : history_request(reply)
    /\ UNCHANGED data_vars
    /\ UNCHANGED job_vars

HistorySleep ==
    /\ history_sleep
    /\ UNCHANGED data_vars
    /\ UNCHANGED job_vars

HistoryFallback ==
    /\ \E j \in Jitters : history_fallback(j)
    /\ UNCHANGED data_vars
    /\ UNCHANGED job_vars

PredictFinish ==
    /\ predict_finish
    /\ UNCHANGED data_vars
    /\ UNCHANGED job_vars

NextForecast == Predict \/ HistoryRequest \/ HistorySleep \/ HistoryFallback \/ PredictFinish

SpecForecast == InitForecast /\ [][NextForecast]_vars

\* The job tracker: treatments started, their worker threads running one
\* statement at a time, and a client asking for the status of the jobs.
InitJobs ==
    /\ store = EmptyStore
    /\ now = FirstInstant
    /\ DB_REF = "ref"
    /\ IOT_DEVICE_SECRET = [set |-> TRUE, val |-> "s3cret"]
    /\ last = NoRequest
    /\ device_pc = "off"
    /\ device_log = <<>>
    /\ fc = NoCall
    /\ NoJobs

job_frame == <<store, now, DB_REF, IOT_DEVICE_SECRET, device_pc, device_log, fc>>

StartTreatment ==
    /\ \E call \in StartCalls : start_treatment(call.data, call.hardness)
    /\ UNCHANGED job_frame

\* the next statement of the worker thread of job_id
Worker(job_id) ==
    /\ \/ run_treatment_job_begin(job_id)
       \/ \E env \in TimeScales : run_treatment_job_set_progress(job_id, env)
       \/ run_treatment_job_step(job_id)
       \/ run_treatment_job_finish(job_id)
       \/ run_treatment_job_set_full(job_id)
       \/ run_treatment_job_set_result(job_id)
       \/ run_treatment_job_except(job_id)
       \/ run_treatment_job_set_error(job_id)
    /\ UNCHANGED <<job_frame, last>>

JobStatus ==
    /\ \E job_id \in JobIds : job_status(job_id)
    /\ UNCHANGED job_frame

JobStatusJsonify ==
    /\ job_status_jsonify
    /\ UNCHANGED job_frame

NextJobs ==
    \/ StartTreatment
    \/ \E job_id \in JobIds : Worker(job_id)
    \/ JobStatus
    \/ JobStatusJsonify

SpecJobs == InitJobs /\ [][NextJobs]_vars

\* The jobs and their worker threads alone, every started thread getting
\* its turn: a thread waits for nothing but JOBS_LOCK, which start_treatment
\* and the other threads hold for a few statements only (a job_status
\* request takes and frees it in one step and writes no job).
NextRun ==
    \/ StartTreatment
    \/ \E job_id \in JobIds : Worker(job_id)

SpecJobsFair == InitJobs /\ [][NextRun]_vars /\ \A job_id \in JobIds : WF_vars(Worker(job_id))

----------------------------------------------------------------------------
(* Properties *)

IsOp(op) == last.req.op = op

\* the token of a device that holds the configured secret
DeviceToken == "Bearer " \o IOT_DEVICE_SECRET.val

\* a record without the fields the read endpoints add
Raw(r) == [f \in (DOMAIN r) \ {"total_hardness", "classification"} |-> r[f]]

\* the records stored under an area name
StoredUnder(area) ==
    LET c == Children(store, Replace(area, SP, USCORE))
    IN { c[i].value : i \in 1..Len(c) }

\* C1: with a secret configured, an ingest call whose Authorization header
\* is not "Bearer " followed by that secret (an absent header included) ends
\* in 401, whatever the payload and whether or not the database reference
\* exists, and leaves the store as it was.
C1_AuthFirst ==
    [][(/\ last'.req.op = "ingest"
        /\ IOT_DEVICE_SECRET.set
        /\ last'.req.auth_header # DeviceToken)
       => (last'.status = 401 /\ store' = store)]_vars

\* C1 happens: a complete payload under a wrong token, the database
\* reference missing, answered 401
C1_Witness ==
    /\ IsOp("ingest")
    /\ IOT_DEVICE_SECRET.set
    /\ DB_REF = "None"
    /\ last.req.auth_header = "Bearer wrong"
    /\ last.req.data = Reading(<<67>>, 400)
    /\ last.status = 401

\* C2: an authenticated ingest call, the database reference present, whose
\* payload is absent or lacks one of area, TDS, Ca, Mg, pH, turbidity,
\* chlorine ends in 400 and leaves the store as it was.
C2_Validation ==
    [][(/\ last'.req.op = "ingest"
        /\ IOT_DEVICE_SECRET.set
        /\ last'.req.auth_header = DeviceToken
        /\ DB_REF = "ref"
        /\ \/ last'.req.data = None
           \/ \E f \in {"area", "TDS", "Ca", "Mg", "pH", "turbidity", "chlorine"} :
                 f \notin DOMAIN last'.req.data)
       => (last'.status = 400 /\ store' = store)]_vars

\* C2 happens: a payload that lacks only chlorine, under the right token,
\* answered 400
C2_Witness ==
    /\ IsOp("ingest")
    /\ IOT_DEVICE_SECRET.set
    /\ last.req.auth_header = DeviceToken
    /\ DB_REF = "ref"
    /\ DOMAIN last.req.data = {"area", "TDS", "Ca", "Mg", "pH", "turbidity"}
    /\ last.status = 400

\* what the device sent, each reading with the timestamp its ingest returned
Sent ==
    { With(device_log[i].reading, "timestamp", device_log[i].response.body.timestamp) :
        i \in 1..Len(device_log) }

\* C3: into an empty store, after k accepted ingests for one area stamped at
\* k different seconds, 1 <= k <= 100, and no other write, get_history of
\* the area answers 200 with record_count = k and exactly the k payloads
\* sent, each with the timestamp its ingest returned.
C3_HistoryAfterIngests ==
    (/\ IsOp("get_history")
     /\ last.req.area = DEVICE_AREA
     /\ Len(device_log) \in 1..100
     /\ \A i \in 1..Len(device_log) : device_log[i].response.status = 201
     /\ Cardinality({ device_log[i].response.body.timestamp : i \in 1..Len(device_log) })
          = Len(device_log))
    => /\ last.status = 200
       /\ last.body.record_count = Len(device_log)
       /\ Len(last.body.data) = Len(device_log)
       /\ { Raw(last.body.data[i]) : i \in 1..Len(last.body.data) } = Sent

\* C3 happens: the history of 100 accepted readings
C3_Witness ==
    /\ IsOp("get_history")
    /\ Len(device_log) = 100
    /\ last.status = 200
    /\ last.body.record_count = 100

\* C4: get_latest maps every area that holds a record to the record of that
\* area with the greatest timestamp.
C4_LatestIsGreatest ==
    (IsOp("get_latest") /\ last.status = 200 /\ DOMAIN store # {})
    => \A ak \in DOMAIN store :
          LET name == Replace(ak, USCORE, SP)
          IN /\ name \in DOMAIN last.body.latest
             /\ \A i \in 1..Len(store[ak]) :
                   ~StrLess(last.body.latest[name].timestamp, store[ak][i].value.timestamp)

\* C5: of two readings of an area stamped t1 < t2 by ingest, the key of the
\* first is above the key of the second as a string, and all keys have the
\* same width.
C5_KeyOrder ==
    \A ak \in DOMAIN store :
        \A i, j \in 1..Len(store[ak]) :
            /\ Len(store[ak][i].key) = Len(store[ak][j].key)
            /\ StrLess(store[ak][i].value.timestamp, store[ak][j].value.timestamp)
                 => StrLess(store[ak][j].key, store[ak][i].key)

\* C6: of an area that holds n >= 1 records written by ingest, get_history
\* returns the min(n, 100) records with the greatest timestamps, in
\* non-decreasing order of timestamp, and record_count is their number.
C6_HistoryLatest100 ==
    (IsOp("get_history") /\ last.status = 200)
    => LET d == last.body.data
           returned == { Raw(d[i]) : i \in 1..Len(d) }
           stored == StoredUnder(last.req.area)
       IN /\ last.body.record_count = Len(d)
          /\ Len(d) = Min(Cardinality(stored), 100)
          /\ Cardinality(returned) = Len(d)
          /\ returned \subseteq stored
          /\ \A i \in 1..(Len(d) - 1) : ~StrLess(d[i + 1].timestamp, d[i].timestamp)
          /\ \A r \in stored \ returned : ~StrLess(d[1].timestamp, r.timestamp)

\* C7: get_history given a limit L, 1 <= L <= 100, returns at most L records.
C7_HistoryHonoursLimit ==
    (IsOp("get_history") /\ last.status = 200 /\ last.req.limit \in 1..100)
    => Len(last.body.data) <= last.req.limit

\* C8: get_history without an area ends in 400; with an area that holds no
\* record, the database reachable, it ends in 404; a 200 never carries an
\* empty list.
C8_HistoryErrors ==
    IsOp("get_history")
    => /\ last.req.area = <<>> => last.status = 400
       /\ (/\ last.req.area # <<>>
           /\ DB_REF = "ref"
           /\ ~last.req.fault
           /\ StoredUnder(last.req.area) = {}) => last.status = 404
       /\ last.status = 200 => Len(last.body.data) > 0

\* C8 happens: the history of an area without records, asked of a store that
\* holds records of another area, answered 404
C8_Witness ==
    /\ IsOp("get_history")
    /\ last.req.area = <<67>>
    /\ DB_REF = "ref"
    /\ ~last.req.fault
    /\ DOMAIN store = { <<65, USCORE, 66>> }
    /\ last.status = 404

\* C9: when the range read of one area fails during get_latest and the reads
\* of the other areas succeed, the answer is 200 and holds the areas whose
\* read succeeded and only those.
C9_LatestSkipsFailing ==
    (/\ IsOp("get_latest")
     /\ DB_REF = "ref"
     /\ ~last.req.fault
     /\ Cardinality(last.req.failing) = 1
     /\ (DOMAIN store) \ last.req.failing # {})
    => /\ last.status = 200
       /\ DOMAIN last.body.latest =
            { Replace(ak, USCORE, SP) : ak \in (DOMAIN store) \ last.req.failing }

\* C10: with the database reachable, get_areas answers 200 with exactly the
\* area keys that hold a record, underscores turned into spaces, one entry
\* each, and with an empty list when the store holds no record.
C10_Areas ==
    (IsOp("get_areas") /\ DB_REF = "ref" /\ ~last.req.fault)
    => /\ last.status = 200
       /\ { last.body.areas[i] : i \in 1..Len(last.body.areas) }
            = { Replace(ak, USCORE, SP) : ak \in { a \in DOMAIN store : Len(store[a]) >= 1 } }
       /\ Len(last.body.areas) = Cardinality(DOMAIN store)

\* C10 happens: two areas hold records and get_areas lists "A B" and "C"
C10_Witness ==
    /\ IsOp("get_areas")
    /\ last.status = 200
    /\ DOMAIN store = { <<65, USCORE, 66>>, <<67>> }
    /\ last.body.areas = << <<65, SP, 66>>, <<67>> >>

\* a returned record carries the hardness and the classification of its own
\* Ca, Mg and TDS: the hundredth nearest to Ca * 2.497 + Mg * 4.118
Recomputed(r) ==
    LET x == r.Ca * 2497 + r.Mg * 4118
    IN /\ 10 * r.total_hardness - x \in -5..5
       /\ r.classification = classify_water_quality(r.TDS, r.total_hardness)
       /\ Enrich(r) = r

\* the records of the last answer of get_latest or get_history
Returned ==
    IF IsOp("get_history") /\ last.status = 200
    THEN { last.body.data[i] : i \in 1..Len(last.body.data) }
    ELSE IF IsOp("get_latest") /\ last.status = 200 /\ "latest" \in DOMAIN last.body
    THEN { last.body.latest[n] : n \in DOMAIN last.body.latest }
    ELSE {}

\* C11: every record get_latest or get_history returns has total_hardness =
\* round(Ca * 2.497 + Mg * 4.118, 2) of its stored Ca and Mg and the
\* classification of its TDS and that hardness, also when the stored record
\* came with values of its own for them; deriving them again from the
\* returned record changes nothing.
C11_Recomputed == \A r \in Returned : Recomputed(r)

\* C11 happens: get_history returns a record that was ingested carrying
\* total_hardness 0.01 and class Soft, now with 282.12 and Very Hard
C11_Witness ==
    /\ IsOp("get_history")
    /\ last.status = 200
    /\ Carrying(Reading(<<67>>, 600)) \in { Without(v, "timestamp") : v \in StoredUnder(<<67>>) }
    /\ \E r \in Returned :
          /\ r.TDS = 600
          /\ r.total_hardness = 28212
          /\ r.classification.hardness_class = "Very Hard"

\* C12: classify_water_quality gives Soft below 60, Moderately Hard from 60
\* to below 120, Hard from 120 to below 180, Very Hard from 180 on; TDS
\* status Safe exactly for TDS <= 500; is_safe_for_drinking exactly for
\* TDS <= 500 and hardness <= 200.
C12_Classes ==
    IsOp("classify")
    => LET tds == last.req.tds
           h == last.req.total_hardness
           c == last.body
       IN /\ c.hardness_class = "Soft" <=> h < 6000
          /\ c.hardness_class = "Moderately Hard" <=> (6000 <= h /\ h < 12000)
          /\ c.hardness_class = "Hard" <=> (12000 <= h /\ h < 18000)
          /\ c.hardness_class = "Very Hard" <=> h >= 18000
          /\ c.tds_status = "Safe" <=> tds <= 500
          /\ c.tds_status \in {"Safe", "Above Recommended Limit"}
          /\ c.is_safe_for_drinking <=> (tds <= 500 /\ h <= 20000)

\* C12 happens: hardness exactly 120 with TDS exactly 500 is Hard, Safe and
\* safe for drinking
C12_Witness ==
    /\ IsOp("classify")
    /\ last.req.tds = 500
    /\ last.req.total_hardness = 12000
    /\ last.body = [hardness_class |-> "Hard", tds_status |-> "Safe",
                    is_safe_for_drinking |-> TRUE]

\* the history requests of the call in progress, in order
Requests == SelectSeq(fc.trace, LAMBDA e : e.step = "request")

Called == fc.pc # "idle"

\* C13: one history fetch makes at most 3 requests, each after the first
\* only behind a request that failed or came back without records (either
\* is retried), waits 0.5 and then 1.0 between them and not after the
\* third, and stops at the first request that brings records, which it
\* returns marked real.
C13_Retries ==
    Called =>
      LET tr == fc.trace
      IN /\ Len(Requests) <= 3
         /\ Len(tr) <= 5
         /\ \A i \in 1..Len(tr) :
               /\ i % 2 = 1 => tr[i].step = "request" /\ tr[i].attempt = (i + 1) \div 2
               /\ i = 2 => tr[i].step = "sleep" /\ tr[i].delay = 5
               /\ i = 4 => tr[i].step = "sleep" /\ tr[i].delay = 10
               /\ (i % 2 = 1 /\ i > 1) => tr[i - 2].reply.kind \in {"fail", "empty"}
               /\ (i % 2 = 1 /\ tr[i].reply.kind = "data")
                    => /\ i = Len(tr)
                       /\ fc.pc \in {"fit", "done"}
                       /\ fc.res = [df |-> tr[i].reply.data, source |-> "real"]
               /\ (i % 2 = 1 /\ tr[i].reply.kind # "data" /\ i = Len(tr))
                    => /\ i < 5 => fc.pc = "sleep"
                       /\ i = 5 => fc.pc \in {"fallback", "fit", "done"}
         /\ (Len(tr) = 0 \/ tr[Len(tr)].step = "sleep") => fc.pc = "request"

\* C13 happens: a failed request, 0.5 of wait, an empty answer, 1.0 of
\* wait, then records, returned as real
C13_Witness ==
    /\ Called
    /\ Len(fc.trace) = 5
    /\ fc.trace[1].reply.kind = "fail"
    /\ fc.trace[2].delay = 5
    /\ fc.trace[3].reply.kind = "empty"
    /\ fc.trace[4].delay = 10
    /\ fc.trace[5].reply.kind = "data"
    /\ fc.pc = "done"
    /\ fc.res.source = "real"

\* a call of predict_area_trend has ended after three failed requests
AllFailed ==
    /\ fc.pc = "done"
    /\ Len(Requests) = 3
    /\ \A i \in 1..3 : Requests[i].reply.kind = "fail"

Known(area) == \E i \in 1..Len(self_areas) : self_areas[i] = area

DayOffsets == { ((fc.res.df[i].timestamp) - seq_min([k \in 1..Len(fc.res.df) |-> fc.res.df[k].timestamp])) \div 24 :
                  i \in 1..Len(fc.res.df) }

\* C15: a history with fewer than 2 distinct day offsets gives the
\* insufficient-data result, with no predictions.
C15_Insufficient ==
    (fc.pc = "done" /\ "res" \in DOMAIN fc /\ fc.future_steps >= 1 /\ Cardinality(DayOffsets) < 2)
    => /\ fc.out.kind = "return"
       /\ fc.out.value.predictions = <<>>
       /\ fc.out.value.trend_message.text = "insufficient"

\* C16: whatever the area and whatever the data layer does,
\* predict_area_trend returns a result and raises nothing.
C16_NeverRaises ==
    (fc.pc = "done" /\ fc.future_steps >= 1) => fc.out.kind = "return"

\* C17: every result predict_area_trend returns carries a source field
\* that says real or mock.
C17_SourceAlways ==
    (fc.pc = "done" /\ fc.out.kind = "return")
    => /\ "source" \in DOMAIN fc.out.value
       /\ fc.out.value.source \in {"real", "mock"}

\* C24: in every forecast, the change the trend message carries is the last
\* predicted value minus the last observed TDS value, and the trend is
\* stable when the change is within -5..5, both ends included, increasing
\* when it is above 5 and decreasing when it is below -5.
C24_TrendBands ==
    (/\ fc.pc = "done"
     /\ fc.out.kind = "return"
     /\ fc.out.value.predictions # <<>>)
    => LET value == fc.out.value
           df == sort_values(fc.res.df)
           observed == df[Len(df)].TDS[1]
           predicted == value.predictions[Len(value.predictions)].predicted_tds
           delta == value.trend_message.tds_change
       IN /\ delta.den = predicted.den
          /\ delta.num = predicted.num - observed * predicted.den
          /\ value.trend_message.text =
                IF delta.num <= 5 * delta.den /\ delta.num >= -5 * delta.den THEN "stable"
                ELSE IF delta.num > 0 THEN "increasing"
                ELSE "decreasing"

----------------------------------------------------------------------------
(* Writes to the store *)

\* C22: the store holds, under each storage key that accepted ingests wrote
\* to, exactly one record, equal to the payload of the last of them with
\* its timestamp, whatever the order in which the payloads arrived; and it
\* holds nothing else, so a write leaves every other key and area as it was.
C22_LastWriteWins ==
    LET Accepted == { i \in 1..Len(device_log) : device_log[i].response.status = 201 }
        WrittenAt(i) == <<area_key(device_log[i].reading.area),
                          reversed_key(device_log[i].response.body.timestamp)>>
        last_writes == { i \in Accepted : \A j \in Accepted : WrittenAt(j) = WrittenAt(i) => j <= i }
    IN /\ \A i \in last_writes :
             LET c == Children(store, WrittenAt(i)[1])
                 at == { n \in 1..Len(c) : c[n].key = WrittenAt(i)[2] }
             IN /\ Cardinality(at) = 1
                /\ \A n \in at : c[n].value = With(device_log[i].reading, "timestamp",
                                                  device_log[i].response.body.timestamp)
       /\ \A ak \in DOMAIN store : \A n \in 1..Len(store[ak]) :
             \E i \in last_writes : WrittenAt(i) = <<ak, store[ak][n].key>>

\* two different payloads for one area accepted within one second, the
\* second of them stored
C22_Witness ==
    \E i, j \in 1..Len(device_log) :
        /\ i < j
        /\ device_log[i].response.status = 201 /\ device_log[j].response.status = 201
        /\ device_log[i].reading.area = device_log[j].reading.area
        /\ device_log[i].response.body.timestamp = device_log[j].response.body.timestamp
        /\ device_log[i].reading # device_log[j].reading
        /\ Size(store) = 1

\* C27: for every Ca and Mg the ML layer reports the total hardness the data
\* layer reports (ten thousandths to the hundredth) and the same hardness
\* class.
C27_SameHardness ==
    IsOp("hardness")
        => /\ last.body.ml.total_hardness = 10 * last.body.data.total_hardness
           /\ last.body.ml.hardness_class = last.body.data.hardness_class

\* C29: for an area with more than one stored record, the record that
\* get_latest_data takes from the answer to its request (the area's key,
\* limit 1) carries the greatest timestamp of the area's records, and is the
\* record get_latest returns for the area.
C29_LatestRecordUsed ==
    (/\ IsOp("get_history") /\ last.status = 200 /\ last.req.limit = 1
     /\ last.req.area = area_key(last.req.area)
     /\ Len(Children(store, last.req.area)) > 1)
        => LET c == Children(store, last.req.area)
               used == get_latest_data(last.body)
           IN /\ used # <<>>
              /\ \A n \in 1..Len(c) : ~StrLess(used[1].timestamp, c[n].value.timestamp)
              /\ used[1] = Enrich(limit_to_first(store, last.req.area, 1)[1])

\* C30: with IOT_DEVICE_SECRET unset, every request to /ingest is answered
\* with the authentication error, whatever its Authorization header, and
\* the store is left as it was.
C30_UnsetSecretRejectsAll ==
    [][ (~IOT_DEVICE_SECRET.set /\ last' # last /\ last'.req.op = "ingest")
            => /\ last'.status = 401 /\ last'.body.error = "auth"
               /\ store' = store ]_vars

\* C26: once ingests were accepted under area names without an underscore,
\* get_areas lists each of these names as it was sent, get_latest (the
\* store answering) returns a record under each of them, and no two of the
\* names are stored under one key.
C26_NamesComeBack ==
    LET names == { device_log[i].reading.area :
                     i \in { n \in 1..Len(device_log) :
                               /\ device_log[n].response.status = 201
                               /\ \A c \in 1..Len(device_log[n].reading.area) :
                                     device_log[n].reading.area[c] # USCORE } }
    IN /\ (IsOp("get_areas") /\ last.status = 200)
             => names \subseteq { last.body.areas[i] : i \in 1..Len(last.body.areas) }
       /\ (IsOp("get_latest") /\ DB_REF # "None" /\ ~last.req.fault /\ last.req.failing = {})
             => /\ last.status = 200
                /\ names \subseteq (IF "latest" \in DOMAIN last.body
                                    THEN DOMAIN last.body.latest ELSE {})
       /\ \A a, b \in names : a # b => area_key(a) # area_key(b)

\* C23: with the database reference missing, or the call to the store
\* raising, get_areas, get_latest, get_history of an area and an ingest with
\* the device's token and a complete payload answer with status 500 or 503
\* and an error body: not with a success, a list of no areas or no records,
\* or the 404 of an area without data.
C23_Unavailable ==
    (/\ \/ IsOp("get_areas")
        \/ IsOp("get_latest")
        \/ IsOp("get_history") /\ last.req.area # <<>>
        \/ IsOp("ingest") /\ last.req.auth_header = expected_token /\ ~Incomplete(last.req.data)
     /\ DB_REF = "None" \/ last.req.fault)
    => /\ last.status \in {500, 503}
       /\ DOMAIN last.body = {"error"}

\* the history of an area that holds a record asked for while the store
\* cannot be read
C23_Witness ==
    /\ IsOp("get_history")
    /\ DB_REF = "ref"
    /\ last.req.fault
    /\ Children(store, area_key(last.req.area)) # <<>>
    /\ last.status = 500

\* C25: every record of the store lies under the area key of its own area
\* (spaces replaced by underscores) and under the record key that is
\* 99999999999999 minus the number YYYYMMDDHHMMSS of its own timestamp,
\* whether ingest or the data generator stored it.
C25_Layout ==
    \A ak \in DOMAIN store : \A n \in 1..Len(store[ak]) :
        LET record == store[ak][n].value
        IN /\ ak = Replace(record.area, SP, USCORE)
           /\ store[ak][n].key = str(NinesMinus(int(strftime_compact(strptime_iso(record.timestamp)))))

----------------------------------------------------------------------------
(* Treatment jobs *)

\* this step answers a job_status call on the job whose previous call was
\* the last one answered
Successive == seen # <<>> /\ seen' # <<>> /\ seen' # seen /\ seen'[1].job_id = seen[1].job_id

\* C18: a job is registered as queued; the status of a registered job
\* changes only from queued to running, from running to completed and from
\* running to failed; and the progress a job_status call on a job shows is
\* never below the progress the call before it on that job showed.
C18_StatusAndProgress ==
    [][ /\ \A j \in DOMAIN JOBS' \ DOMAIN JOBS : JOBS'[j].status = "queued"
        /\ \A j \in DOMAIN JOBS :
              \/ JOBS'[j].status = JOBS[j].status
              \/ JOBS[j].status = "queued" /\ JOBS'[j].status = "running"
              \/ JOBS[j].status = "running" /\ JOBS'[j].status = "completed"
              \/ JOBS[j].status = "running" /\ JOBS'[j].status = "failed"
        /\ Successive => seen'[1].progress >= seen[1].progress ]_vars

\* one job completed and the other failed, and a call on a job has read
\* more progress than the call before it on that job showed
C18_Witness ==
    /\ \E j, k \in DOMAIN JOBS : JOBS[j].status = "completed" /\ JOBS[k].status = "failed"
    /\ seen # <<>>
    /\ client.pc = "jsonify" /\ client.job_id = seen[1].job_id /\ client.k = 3
    /\ client.body.progress > seen[1].progress

\* C19: the job a job_status call returns equals the fields the job had at
\* its registration or after one of the locked updates of its worker (the
\* update under way while it was read, once over, included): it never mixes
\* fields from before and after an update.
C19_SnapshotAtOneInstant ==
    (last.req.op = "job_status" /\ last.status = 200 /\ JOBS_LOCK # last.req.job_id) =>
        \E k \in 1..Len(committed[last.req.job_id]) :
            committed[last.req.job_id][k] = last.body

\* job j is over: completed or failed
Over(j) == JOBS[j].status \in {"completed", "failed"}

\* C20: the worker threads getting their turns, every registered job is
\* eventually completed or failed, whatever volume, flow rate and time
\* scale it was given; the status of a job that is completed or failed
\* never changes again, nor does any of its fields once the update that
\* ended it is over.
C20_EveryJobEnds ==
    /\ \A j \in JobIds : (j \in DOMAIN JOBS) ~> (j \in DOMAIN JOBS /\ Over(j))
    /\ [][\A j \in DOMAIN JOBS :
            /\ Over(j) => JOBS'[j].status = JOBS[j].status
            /\ Over(j) /\ JOBS_LOCK # j => JOBS'[j] = JOBS[j]]_vars

\* a job of infinite volume failed, a job without a flow rate completed,
\* and both threads are over
C20_Witness ==
    /\ \E j, k \in DOMAIN JOBS :
          /\ JOBS[j].status = "failed" /\ JOBS[j].volume_liters = Inf
          /\ JOBS[k].status = "completed" /\ JOBS[k].estimated_minutes = <<>>
    /\ \A j \in DOMAIN JOBS : worker[j].pc = "done"

\* C21: a job_status call answers "Job not found" only for an id under
\* which no job is registered, and finds every registered job; a registered
\* job is never removed nor replaced by another, so every later call finds
\* it.
C21_NotFoundOnlyUnknown ==
    [][ /\ DOMAIN JOBS \subseteq DOMAIN JOBS'
        /\ \A j \in DOMAIN JOBS : JOBS'[j].job_id = JOBS[j].job_id
        /\ (last' # last /\ last'.req.op = "job_status" /\ last'.status = 404)
              => last'.req.job_id \notin DOMAIN JOBS
        /\ (last' # last /\ last'.req.op = "job_status" /\ last'.status = 200)
              => last'.req.job_id \in DOMAIN JOBS
        /\ (client.pc = "idle" /\ client'.pc = "jsonify")
              => client'.job_id \in DOMAIN JOBS ]_vars

\* an unknown id was answered "Job not found" after the only job was
\* found, and that job is being read again while its worker updates it
C21_Witness ==
    /\ last.req.op = "job_status" /\ last.status = 404
    /\ last.req.job_id \notin DOMAIN JOBS
    /\ seen # <<>> /\ seen[1].job_id \in DOMAIN JOBS
    /\ client.pc = "jsonify" /\ JOBS_LOCK = client.job_id

\* C28: whenever JOBS_LOCK is free, the progress of every job is one of 0,
\* 10, ..., 100; a queued job has progress 0 and no result; a completed job
\* has progress 100, a result and no error; a failed job has an error and no
\* result.
C28_JobsWhileLockFree ==
    JOBS_LOCK = 0 =>
        \A j \in DOMAIN JOBS :
            /\ JOBS[j].progress \in { 10 * n : n \in 0..10 }
            /\ JOBS[j].status = "queued" => JOBS[j].progress = 0 /\ JOBS[j].result = <<>>
            /\ JOBS[j].status = "completed" =>
                  JOBS[j].progress = 100 /\ JOBS[j].result # <<>> /\ JOBS[j].error = <<>>
            /\ JOBS[j].status = "failed" => JOBS[j].error # <<>> /\ JOBS[j].result = <<>>

\* the lock free with one job completed and the other failed before its
\* first step
C28_Witness ==
    /\ JOBS_LOCK = 0
    /\ \E j, k \in DOMAIN JOBS :
          /\ JOBS[j].status = "completed"
          /\ JOBS[k].status = "failed" /\ JOBS[k].progress = 0

====
